---- MODULE Spec2Model ----
(***************************************************************************)
(* DiskUtilsLib.hpp: DiskUtils::GetVolumeDiskExtents (the resolver),       *)
(* DiskUtils::GetDiskProperties (the reader) and the constructor and       *)
(* accessors of DiskPropertiesFetcher (fetch).  The operating system is    *)
(* the environment: which volumes and disks open, what the three           *)
(* device-control queries answer.  It is fixed in Init and never changes.  *)
(***************************************************************************)
EXTENDS Integers, Sequences, FiniteSets, TLC

\* ------------------------------------------------------------------------
\* Bounds of the model
\* ------------------------------------------------------------------------
\* longest list of disk extents the OS reports for a volume
MaxExtents == 2

\* ------------------------------------------------------------------------
\* Program constants
\* ------------------------------------------------------------------------
\* BYTE buffer[1024]
BufSize == 1024
\* VOLUME_DISK_EXTENTS diskExtents: the structure holds Extents[1]
ExtentCapacity == 1

\* ------------------------------------------------------------------------
\* 64-bit integers.  A number is five limbs of 15 bits, least significant
\* first (75 bits), so that every intermediate value stays in TLC's range.
\* ------------------------------------------------------------------------
Base == 2^15

Zero == <<0, 0, 0, 0, 0>>

\* n in 0 .. 2^31-1 as a number
FromInt(n) == <<n % Base, (n \div Base) % Base, n \div (Base * Base), 0, 0>>

\* a * m mod 2^75, for a limb m
MulLimb(a, m) ==
    LET p1 == a[1] * m
        p2 == a[2] * m + (p1 \div Base)
        p3 == a[3] * m + (p2 \div Base)
        p4 == a[4] * m + (p3 \div Base)
        p5 == a[5] * m + (p4 \div Base)
    IN <<p1 % Base, p2 % Base, p3 % Base, p4 % Base, p5 % Base>>

\* a * Base^k mod 2^75
ShiftLimbs(a, k) ==
    IF k = 0 THEN a
    ELSE IF k = 1 THEN <<0, a[1], a[2], a[3], a[4]>>
    ELSE <<0, 0, a[1], a[2], a[3]>>

\* a + b mod 2^75
Add(a, b) ==
    LET s1 == a[1] + b[1]
        s2 == a[2] + b[2] + (s1 \div Base)
        s3 == a[3] + b[3] + (s2 \div Base)
        s4 == a[4] + b[4] + (s3 \div Base)
        s5 == a[5] + b[5] + (s4 \div Base)
    IN <<s1 % Base, s2 % Base, s3 % Base, s4 % Base, s5 % Base>>

\* a * b mod 2^75, for b below 2^45 (a DWORD has three limbs)
Mul(a, b) ==
    LET r1 == MulLimb(a, b[1])
        r2 == ShiftLimbs(MulLimb(a, b[2]), 1)
        r3 == ShiftLimbs(MulLimb(a, b[3]), 2)
    IN Add(Add(r1, r2), r3)

\* a mod 2^64: limb 5 holds bits 60..74
Wrap64(a) == [a EXCEPT ![5] = a[5] % 16]

\* LONGLONG * DWORD in a 64-bit register
Mul64(a, b) == Wrap64(Mul(a, b))

\* bit 63 of a 64-bit pattern: the sign of a LONGLONG
IsNegative(a) == a[5] >= 8

\* two's complement negation of a 64-bit pattern
Neg64(a) ==
    Wrap64(Add(<<Base - 1 - a[1], Base - 1 - a[2], Base - 1 - a[3],
                 Base - 1 - a[4], 15 - a[5]>>, FromInt(1)))

\* a \div 2^30: two limbs down
Shr30(a) == <<a[3], a[4], a[5], 0, 0>>

\* a mod 2^32: static_cast<DWORD>
Trunc32(a) == <<a[1], a[2], a[3] % 4, 0, 0>>

\* ------------------------------------------------------------------------
\* The operating system's answers
\* ------------------------------------------------------------------------
Volumes == {"C:", "D:"}
Disks == {0, 1}
\* what a read of Extents[i].DiskNumber outside the structure can yield: the
\* number of either disk, or a number that names no physical drive
Indeterminate == Disks \cup {7}

\* what IOCTL_STORAGE_QUERY_PROPERTY leaves in the zeroed buffer: the two
\* offset fields of STORAGE_DEVICE_DESCRIPTOR and the strings, each placed
\* at its first byte.  A descriptor longer than the buffer is cut at BufSize.
DescAbsent == [SerialNumberOffset |-> 0, ProductIdOffset |-> 0, text |-> {}]
DescFull ==
    [SerialNumberOffset |-> 60, ProductIdOffset |-> 40,
     text |-> {[at |-> 40, bytes |-> <<77, 68, 0>>],
               [at |-> 60, bytes |-> <<83, 49, 0>>]}]
DescModelOnly ==
    [SerialNumberOffset |-> 0, ProductIdOffset |-> 40,
     text |-> {[at |-> 40, bytes |-> <<81, 0>>]}]
\* the serial number fills the last two bytes of the buffer: no terminator
DescCut ==
    [SerialNumberOffset |-> BufSize - 2, ProductIdOffset |-> 40,
     text |-> {[at |-> 40, bytes |-> <<77, 68, 0>>],
               [at |-> BufSize - 2, bytes |-> <<65, 66>>]}]
\* the product id starts where the buffer ends
DescBeyond ==
    [SerialNumberOffset |-> 60, ProductIdOffset |-> BufSize,
     text |-> {[at |-> 60, bytes |-> <<83, 50, 0>>]}]

Descriptors == {DescAbsent, DescFull, DescModelOnly, DescCut, DescBeyond}

\* DISK_GEOMETRY: Cylinders is a LARGE_INTEGER, the other three are DWORDs
Geo(c, t, s, b) ==
    [Cylinders |-> FromInt(c), TracksPerCylinder |-> FromInt(t),
     SectorsPerTrack |-> FromInt(s), BytesPerSector |-> FromInt(b)]

GeoUsual == Geo(1000, 255, 63, 512)
GeoSmall == Geo(1, 1, 1, 512)
\* 2^62 bytes
GeoHuge == Geo(2^30, 2^12, 2^10, 2^10)
\* 2^63 bytes
GeoSign == Geo(2^30, 2^13, 2^10, 2^10)

Geometries == {GeoUsual, GeoSmall, GeoHuge, GeoSign}

\* a physical drive: does CreateFileW open it, does the property query
\* succeed and with which descriptor, does the geometry query succeed and
\* with which geometry
DiskProfile(o, p, d, g, geo) ==
    [open |-> o, prop |-> p, desc |-> d, geom |-> g, geo |-> geo]

DiskProfiles ==
    { DiskProfile(FALSE, FALSE, DescAbsent, FALSE, GeoSmall),
      DiskProfile(TRUE, FALSE, DescAbsent, FALSE, GeoSmall),
      DiskProfile(TRUE, TRUE, DescFull, FALSE, GeoSmall),
      DiskProfile(TRUE, TRUE, DescModelOnly, FALSE, GeoSmall),
      DiskProfile(TRUE, TRUE, DescFull, TRUE, GeoUsual),
      DiskProfile(TRUE, TRUE, DescAbsent, TRUE, GeoSmall),
      DiskProfile(TRUE, TRUE, DescCut, TRUE, GeoUsual),
      DiskProfile(TRUE, TRUE, DescBeyond, TRUE, GeoSmall),
      DiskProfile(TRUE, TRUE, DescFull, TRUE, GeoHuge),
      DiskProfile(TRUE, TRUE, DescModelOnly, TRUE, GeoSign) }

\* sequences over S of length lo..hi
SeqsOf(S, lo, hi) == UNION { [1..n -> S] : n \in lo..hi }

\* a volume: does CreateFileW open it, does the extents query succeed, and
\* the disk numbers of its extents in the OS's order.  "C:" is any of
\* these, "D:" one that is not spanned.
VolumeProfiles ==
    { [open |-> FALSE, query |-> FALSE, extents |-> <<>>],
      [open |-> TRUE, query |-> FALSE, extents |-> <<>>] }
    \cup { [open |-> TRUE, query |-> TRUE, extents |-> e] :
             e \in SeqsOf(Disks, 0, MaxExtents) }

\* bytes on the stack right after buffer[], zero from there on
Tails == { <<>>, <<90>>, <<90, 91>> }

\* ------------------------------------------------------------------------
\* State
\* ------------------------------------------------------------------------
VARIABLES
    volumes,        \* the OS: Volumes -> VolumeProfiles
    disks,          \* the OS: Disks -> DiskProfiles
    pc,             \* where the constructor of DiskPropertiesFetcher stands
    volumePath,     \* the constructor's argument
    diskNumbers,    \* std::vector<int> diskNumbers
    cursor,         \* position of the range-for in diskNumbers
    serialNumber,   \* DiskPropertiesFetcher::serialNumber
    model,          \* DiskPropertiesFetcher::model
    size,           \* DiskPropertiesFetcher::size.QuadPart
    hVolume,        \* the resolver's handle: "none", "open", "closed", "invalid"
    hDevice,        \* the reader's handle, likewise
    calls,          \* the OS calls of this constructor call, in order
    resolved,       \* what GetVolumeDiskExtents returned: "pending", "true", "false"
    reads,          \* the GetDiskProperties calls that returned: disk and result
    scans,          \* the byte ranges the string scans of the reader read
    entry,          \* the three output arguments as the running or the last
                    \* GetDiskProperties call found them
    previous        \* per volume path, what the last finished fetch on it returned

vars == <<volumes, disks, pc, volumePath, diskNumbers, cursor,
          serialNumber, model, size, hVolume, hDevice, calls, resolved, reads,
          scans, entry, previous>>

os == <<volumes, disks>>

\* an OS call: its name, whether it is made on the volume or on a disk,
\* whether its handle was open when it was made, whether it succeeded
Call(op, on, live, ok) == [op |-> op, on |-> on, live |-> live, ok |-> ok]

\* a return of GetDiskProperties
Read(disk, ok) == [disk |-> disk, ok |-> ok]

\* the three values a fetch exposes, or the three output arguments of
\* GetDiskProperties
Properties(sn, m, sz) == [serialNumber |-> sn, model |-> m, size |-> sz]

\* no fetch on the volume path has finished yet
NoResult == [known |-> FALSE, result |-> Properties(<<>>, <<>>, Zero)]

\* ------------------------------------------------------------------------
\* The string scan of GetDiskProperties
\* ------------------------------------------------------------------------
\* the byte at index i of buffer[] after the property query, for i < BufSize;
\* beyond, the byte of the stack that follows the buffer
ByteAt(desc, tail, i) ==
    IF i < BufSize
    THEN IF \E t \in desc.text : i \in t.at .. (t.at + Len(t.bytes) - 1)
         THEN LET t == CHOOSE t \in desc.text : i \in t.at .. (t.at + Len(t.bytes) - 1)
              IN t.bytes[i - t.at + 1]
         ELSE 0
    ELSE IF i - BufSize < Len(tail) THEN tail[i - BufSize + 1] ELSE 0

\* while (p[length] != '\0' && length < sizeof(buffer)) ++length;
RECURSIVE ScanLength(_, _, _, _)
ScanLength(desc, tail, offset, length) ==
    IF ByteAt(desc, tail, offset + length) # 0 /\ length < BufSize
    THEN ScanLength(desc, tail, offset, length + 1)
    ELSE length

\* std::string(p, length)
ScanString(desc, tail, offset) ==
    [k \in 1 .. ScanLength(desc, tail, offset, 0) |->
        ByteAt(desc, tail, offset + k - 1)]

\* the indices the scan reads: p[0] .. p[length], the last one read being the
\* one that ends the loop
ScanRange(field, desc, tail, offset) ==
    [field |-> field, first |-> offset,
     last |-> offset + ScanLength(desc, tail, offset, 0)]

\* dg.Cylinders.QuadPart * dg.TracksPerCylinder * dg.SectorsPerTrack
\*   * dg.BytesPerSector
SizeInBytes(dg) ==
    Mul64(Mul64(Mul64(dg.Cylinders, dg.TracksPerCylinder), dg.SectorsPerTrack),
          dg.BytesPerSector)

\* static_cast<DWORD>(size.QuadPart / (1024 * 1024 * 1024)); the division of
\* a LONGLONG truncates toward zero
DiskSizeOf(quad) ==
    IF IsNegative(quad)
    THEN Trunc32(Neg64(Shr30(Neg64(quad))))
    ELSE Trunc32(Shr30(quad))

DiskSerialNumber == serialNumber
DiskModel == model
DiskSize == DiskSizeOf(size)

\* ------------------------------------------------------------------------
\* Init
\* ------------------------------------------------------------------------
Init ==
    /\ volumes \in { v \in [Volumes -> VolumeProfiles] :
                       Len(v["D:"].extents) <= ExtentCapacity }
    /\ disks \in [Disks -> DiskProfiles]
    /\ pc = "idle"
    /\ volumePath = "C:"
    /\ diskNumbers = <<>>
    /\ cursor = 1
    /\ serialNumber = <<>>
    /\ model = <<>>
    /\ size = Zero
    /\ hVolume = "none"
    /\ hDevice = "none"
    /\ calls = <<>>
    /\ resolved = "pending"
    /\ reads = <<>>
    /\ scans = {}
    /\ entry = Properties(<<>>, <<>>, Zero)
    /\ previous = [v \in Volumes |-> NoResult]

\* ------------------------------------------------------------------------
\* DiskPropertiesFetcher::DiskPropertiesFetcher, step by step
\* ------------------------------------------------------------------------
\* : serialNumber(""), model(""), size({ 0 }) { std::vector<int> diskNumbers;
Begin(path) ==
    /\ pc \in {"idle", "done"}
    /\ volumePath' = path
    /\ serialNumber' = <<>>
    /\ model' = <<>>
    /\ size' = Zero
    /\ diskNumbers' = <<>>
    /\ cursor' = 1
    /\ hVolume' = "none"
    /\ hDevice' = "none"
    /\ calls' = <<>>
    /\ resolved' = "pending"
    /\ reads' = <<>>
    /\ scans' = {}
    /\ entry' = Properties(<<>>, <<>>, Zero)
    /\ pc' = "open_volume"
    /\ UNCHANGED os

\* a DiskPropertiesFetcher is constructed on a volume path
Construct(path) ==
    /\ Begin(path)
    /\ UNCHANGED previous

\* a DiskPropertiesFetcher is constructed on a volume path; what the one
\* before it returned is kept for comparison
ConstructAgain(path) ==
    /\ Begin(path)
    /\ previous' =
          IF pc = "done"
          THEN [previous EXCEPT ![volumePath] =
                  [known |-> TRUE,
                   result |-> Properties(DiskSerialNumber, DiskModel, size)]]
          ELSE previous

\* OpenVolume without the test for INVALID_HANDLE_VALUE
OpenVolumeUnchecked ==
    /\ pc = "open_volume"
    /\ hVolume' = IF volumes[volumePath].open THEN "open" ELSE "invalid"
    /\ calls' = Append(calls, Call("CreateFileW", "volume", TRUE,
                                   volumes[volumePath].open))
    /\ pc' = "query_extents"
    /\ UNCHANGED <<os, previous, entry, volumePath, diskNumbers, cursor, serialNumber,
                   model, size, hDevice, resolved, reads, scans>>

\* GetVolumeDiskExtents: CreateFileW on the volume path.  On
\* INVALID_HANDLE_VALUE it returns false and the constructor ends.
OpenVolume ==
    /\ pc = "open_volume"
    /\ IF volumes[volumePath].open
       THEN /\ hVolume' = "open"
            /\ calls' = Append(calls, Call("CreateFileW", "volume", TRUE, TRUE))
            /\ pc' = "query_extents"
            /\ UNCHANGED resolved
       ELSE /\ hVolume' = "invalid"
            /\ calls' = Append(calls, Call("CreateFileW", "volume", TRUE, FALSE))
            /\ resolved' = "false"
            /\ pc' = "done"
    /\ UNCHANGED <<os, previous, entry, volumePath, diskNumbers, cursor, serialNumber,
                   model, size, hDevice, reads, scans>>

\* ExtentsFail without its CloseHandle
ExtentsFailLeak ==
    /\ calls' = Append(calls, Call("IOCTL_VOLUME_GET_VOLUME_DISK_EXTENTS",
                                   "volume", hVolume = "open", FALSE))
    /\ resolved' = "false"
    /\ pc' = "done"
    /\ UNCHANGED <<diskNumbers, hVolume>>

\* ExtentsFail with the push_back loop run before the test of the result:
\* the extents the structure received are appended, then return false
ExtentsFailPartial ==
    /\ calls' = calls \o
                <<Call("IOCTL_VOLUME_GET_VOLUME_DISK_EXTENTS", "volume",
                       hVolume = "open", FALSE),
                  Call("CloseHandle", "volume", hVolume = "open", TRUE)>>
    /\ hVolume' = "closed"
    /\ resolved' = "false"
    /\ pc' = "done"
    /\ diskNumbers' = diskNumbers
          \o [i \in 1..(IF Len(volumes[volumePath].extents) < ExtentCapacity
                         THEN Len(volumes[volumePath].extents)
                         ELSE ExtentCapacity)
                |-> volumes[volumePath].extents[i]]

\* the failure branch of the extents query: CloseHandle, return false
ExtentsFail ==
    /\ calls' = calls \o
                <<Call("IOCTL_VOLUME_GET_VOLUME_DISK_EXTENTS", "volume",
                       hVolume = "open", FALSE),
                  Call("CloseHandle", "volume", hVolume = "open", TRUE)>>
    /\ hVolume' = "closed"
    /\ resolved' = "false"
    /\ pc' = "done"
    /\ UNCHANGED diskNumbers

\* ExtentsPush without its CloseHandle
ExtentsPushLeak(numbers) ==
    /\ calls' = Append(calls, Call("IOCTL_VOLUME_GET_VOLUME_DISK_EXTENTS",
                                   "volume", hVolume = "open", TRUE))
    /\ diskNumbers' = diskNumbers \o numbers
    /\ resolved' = "true"
    /\ pc' = "next_disk"
    /\ UNCHANGED hVolume

\* the success branch: push_back of Extents[0 .. NumberOfDiskExtents-1],
\* CloseHandle, return true
ExtentsPush(numbers) ==
    /\ calls' = calls \o
                <<Call("IOCTL_VOLUME_GET_VOLUME_DISK_EXTENTS", "volume",
                       hVolume = "open", TRUE),
                  Call("CloseHandle", "volume", hVolume = "open", TRUE)>>
    /\ hVolume' = "closed"
    /\ diskNumbers' = diskNumbers \o numbers
    /\ resolved' = "true"
    /\ pc' = "next_disk"

\* GetVolumeDiskExtents: DeviceIoControl into one VOLUME_DISK_EXTENTS, the
\* loop over NumberOfDiskExtents, CloseHandle.  The structure holds
\* ExtentCapacity extents.  For a volume with more, the OS either fails the
\* call (ERROR_MORE_DATA), or the call is answered with the full count and
\* the loop reads Extents[i] past the structure for i >= ExtentCapacity.
QueryExtents ==
    /\ pc = "query_extents"
    /\ LET v == volumes[volumePath]
           n == Len(v.extents)
       IN IF ~v.query
          THEN ExtentsFail
          ELSE IF n <= ExtentCapacity
          THEN ExtentsPush(v.extents)
          ELSE \/ ExtentsFail
               \/ \E beyond \in [(ExtentCapacity + 1) .. n -> Indeterminate] :
                     ExtentsPush([i \in 1..n |->
                                    IF i <= ExtentCapacity THEN v.extents[i]
                                    ELSE beyond[i]])
    /\ UNCHANGED <<os, previous, entry, volumePath, cursor, serialNumber, model, size,
                   hDevice, reads, scans>>

\* for (int diskNumber : diskNumbers): the range is exhausted
EndOfLoop ==
    /\ pc = "next_disk"
    /\ cursor > Len(diskNumbers)
    /\ pc' = "done"
    /\ UNCHANGED <<os, previous, entry, volumePath, diskNumbers, cursor, serialNumber,
                   model, size, hVolume, hDevice, calls, resolved, reads, scans>>

diskNumber == diskNumbers[cursor]

\* does CreateFileW open \\.\PhysicalDrive<n>
Openable(n) == n \in Disks /\ disks[n].open

\* GetDiskProperties returns false: the loop of the constructor goes on
ReturnFalse ==
    /\ reads' = Append(reads, Read(diskNumber, FALSE))
    /\ cursor' = cursor + 1
    /\ pc' = "next_disk"

\* GetDiskProperties: CreateFileW on the physical drive
OpenDisk ==
    /\ pc = "next_disk"
    /\ cursor <= Len(diskNumbers)
    /\ IF Openable(diskNumber)
       THEN /\ hDevice' = "open"
            /\ calls' = Append(calls, Call("CreateFileW", "disk", TRUE, TRUE))
            /\ pc' = "query_property"
            /\ UNCHANGED <<reads, cursor>>
       ELSE /\ hDevice' = "invalid"
            /\ calls' = Append(calls, Call("CreateFileW", "disk", TRUE, FALSE))
            /\ ReturnFalse
    /\ entry' = Properties(serialNumber, model, size)
    /\ UNCHANGED <<os, previous, volumePath, diskNumbers, serialNumber, model,
                   size, hVolume, resolved, scans>>

\* PropertyFail without its CloseHandle and its return: the reader goes on
\* to the geometry query
PropertyFailGoesOn ==
    /\ calls' = Append(calls, Call("IOCTL_STORAGE_QUERY_PROPERTY", "disk",
                                   hDevice = "open", FALSE))
    /\ pc' = "query_geometry"
    /\ UNCHANGED <<hDevice, reads, cursor, serialNumber, model, scans>>

\* the failure branch of the property query: CloseHandle, return false
PropertyFail ==
    /\ calls' = calls \o
                <<Call("IOCTL_STORAGE_QUERY_PROPERTY", "disk",
                       hDevice = "open", FALSE),
                  Call("CloseHandle", "disk", hDevice = "open", TRUE)>>
    /\ hDevice' = "closed"
    /\ ReturnFalse
    /\ UNCHANGED <<serialNumber, model, scans>>

\* the two scans of the descriptor left in buffer[]; tail is what lies on
\* the stack after the buffer
PropertyScan(d, tail) ==
    /\ calls' = Append(calls, Call("IOCTL_STORAGE_QUERY_PROPERTY", "disk",
                                   hDevice = "open", TRUE))
    /\ serialNumber' =
          IF d.SerialNumberOffset # 0
          THEN ScanString(d, tail, d.SerialNumberOffset)
          ELSE serialNumber
    /\ model' =
          IF d.ProductIdOffset # 0
          THEN ScanString(d, tail, d.ProductIdOffset)
          ELSE model
    /\ scans' = scans
          \cup (IF d.SerialNumberOffset # 0
                THEN {ScanRange("serial", d, tail, d.SerialNumberOffset)}
                ELSE {})
          \cup (IF d.ProductIdOffset # 0
                THEN {ScanRange("model", d, tail, d.ProductIdOffset)}
                ELSE {})
    /\ pc' = "query_geometry"
    /\ UNCHANGED <<hDevice, reads, cursor>>

\* GetDiskProperties: the property query into buffer[] and the two scans
QueryProperty ==
    /\ pc = "query_property"
    /\ IF ~disks[diskNumber].prop
       THEN PropertyFail
       ELSE \E tail \in Tails : PropertyScan(disks[diskNumber].desc, tail)
    /\ UNCHANGED <<os, previous, entry, volumePath, diskNumbers, size, hVolume, resolved>>

\* GeometryFail without its CloseHandle
GeometryFailLeak ==
    /\ calls' = Append(calls, Call("IOCTL_DISK_GET_DRIVE_GEOMETRY", "disk",
                                   hDevice = "open", FALSE))
    /\ ReturnFalse
    /\ UNCHANGED <<size, hDevice>>

\* GeometryFail with the size computed before the test of the result
GeometryFailSized ==
    /\ calls' = calls \o
                <<Call("IOCTL_DISK_GET_DRIVE_GEOMETRY", "disk",
                       hDevice = "open", FALSE),
                  Call("CloseHandle", "disk", hDevice = "open", TRUE)>>
    /\ hDevice' = "closed"
    /\ ReturnFalse
    /\ size' = SizeInBytes(disks[diskNumber].geo)

\* the failure branch of the geometry query: CloseHandle, return false
GeometryFail ==
    /\ calls' = calls \o
                <<Call("IOCTL_DISK_GET_DRIVE_GEOMETRY", "disk",
                       hDevice = "open", FALSE),
                  Call("CloseHandle", "disk", hDevice = "open", TRUE)>>
    /\ hDevice' = "closed"
    /\ ReturnFalse
    /\ UNCHANGED size

\* GeometryDone with a constructor that does not return on success
GeometryDoneNoReturn(dg) ==
    /\ calls' = calls \o
                <<Call("IOCTL_DISK_GET_DRIVE_GEOMETRY", "disk",
                       hDevice = "open", TRUE),
                  Call("CloseHandle", "disk", hDevice = "open", TRUE)>>
    /\ size' = SizeInBytes(dg)
    /\ hDevice' = "closed"
    /\ reads' = Append(reads, Read(diskNumber, TRUE))
    /\ cursor' = cursor + 1
    /\ pc' = "next_disk"

\* the success branch: the size, CloseHandle, return true; the constructor
\* returns
GeometryDone(dg) ==
    /\ calls' = calls \o
                <<Call("IOCTL_DISK_GET_DRIVE_GEOMETRY", "disk",
                       hDevice = "open", TRUE),
                  Call("CloseHandle", "disk", hDevice = "open", TRUE)>>
    /\ size' = SizeInBytes(dg)
    /\ hDevice' = "closed"
    /\ reads' = Append(reads, Read(diskNumber, TRUE))
    /\ pc' = "done"
    /\ UNCHANGED cursor

\* GetDiskProperties: the geometry query, the size, CloseHandle
QueryGeometry ==
    /\ pc = "query_geometry"
    /\ IF ~disks[diskNumber].geom
       THEN GeometryFail
       ELSE GeometryDone(disks[diskNumber].geo)
    /\ UNCHANGED <<os, previous, entry, volumePath, diskNumbers, serialNumber, model,
                   hVolume, resolved, scans>>

Next ==
    \/ \E path \in Volumes : Construct(path)
    \/ OpenVolume
    \/ QueryExtents
    \/ EndOfLoop
    \/ OpenDisk
    \/ QueryProperty
    \/ QueryGeometry

Spec == Init /\ [][Next]_vars

\* fetch after fetch, each compared with the one before it on the same path
NextAgain ==
    \/ \E path \in Volumes : ConstructAgain(path)
    \/ OpenVolume
    \/ QueryExtents
    \/ EndOfLoop
    \/ OpenDisk
    \/ QueryProperty
    \/ QueryGeometry

SpecAgain == Init /\ [][NextAgain]_vars

\* ------------------------------------------------------------------------
\* Properties
\* ------------------------------------------------------------------------
\* number of calls of the log that satisfy the test
CountCalls(op, on, ok) ==
    Cardinality({ i \in 1..Len(calls) :
                    calls[i].op = op /\ calls[i].on = on /\ calls[i].ok = ok })

\* the text a descriptor holds at an offset: the bytes from the offset up to
\* the first zero byte or the end of the buffer; none for offset 0
TextLength(desc, offset) ==
    CHOOSE n \in 0..BufSize :
        /\ offset + n >= BufSize \/ ByteAt(desc, <<>>, offset + n) = 0
        /\ \A k \in 0..(n - 1) :
              offset + k < BufSize /\ ByteAt(desc, <<>>, offset + k) # 0

FieldText(desc, offset) ==
    IF offset = 0 THEN <<>>
    ELSE [k \in 1..TextLength(desc, offset) |-> ByteAt(desc, <<>>, offset + k - 1)]

\* C1: when the resolver succeeded and every disk number it returned failed
\* in GetDiskProperties, the finished fetch has an empty serial number, an
\* empty model and size 0.
C1_AllFailedIsEmpty ==
    (/\ pc = "done"
     /\ resolved = "true"
     /\ Len(reads) = Len(diskNumbers)
     /\ \A i \in 1..Len(reads) : ~reads[i].ok)
    => (DiskSerialNumber = <<>> /\ DiskModel = <<>> /\ size = Zero)

\* what GetDiskProperties yields for a disk when called with empty strings
ReadAlone(disk, tail) ==
    LET d == disks[disk].desc
    IN [serialNumber |-> IF d.SerialNumberOffset # 0
                         THEN ScanString(d, tail, d.SerialNumberOffset)
                         ELSE <<>>,
        model |-> IF d.ProductIdOffset # 0
                  THEN ScanString(d, tail, d.ProductIdOffset)
                  ELSE <<>>,
        size |-> SizeInBytes(disks[disk].geo)]

\* C2: for a volume resolved to its two disk numbers, when the read of the
\* first failed and the read of the second succeeded, the finished fetch
\* holds the serial number, model and size read from the second disk and
\* nothing of the first disk.
C2_SecondDiskWins ==
    (/\ pc = "done"
     /\ diskNumbers = volumes[volumePath].extents
     /\ Len(reads) = 2
     /\ ~reads[1].ok
     /\ reads[2].ok)
    => \E tail \in Tails :
          LET second == ReadAlone(reads[2].disk, tail)
          IN /\ DiskSerialNumber = second.serialNumber
             /\ DiskModel = second.model
             /\ size = second.size

\* C3: once the resolver has failed the fetch is over with an empty serial
\* number, an empty model and size 0; when it failed because the volume did
\* not open, the only OS call made is that CreateFileW on the volume: no
\* disk is opened and no device-control call is issued.
C3_ResolverFailureIsEmpty ==
    resolved = "false"
    => /\ pc = "done"
       /\ DiskSerialNumber = <<>>
       /\ DiskModel = <<>>
       /\ size = Zero
       /\ DiskSize = Zero
       /\ reads = <<>>
       /\ ~volumes[volumePath].open
             => calls = <<Call("CreateFileW", "volume", TRUE, FALSE)>>

C3_Witness ==
    /\ pc = "done"
    /\ resolved = "false"
    /\ ~volumes[volumePath].open
    /\ Len(calls) = 1

\* C4: GetDiskProperties is called on diskNumbers[1], diskNumbers[2], ... in
\* that order, one call at a time; a call that succeeds is the last one and
\* ends the fetch, so a disk number is tried only after all before it failed.
C4_OrderedFirstSuccess ==
    LET reading == pc \in {"query_property", "query_geometry"}
        started == Len(reads) + (IF reading THEN 1 ELSE 0)
    IN /\ started <= Len(diskNumbers)
       /\ \A i \in 1..Len(reads) :
             /\ reads[i].disk = diskNumbers[i]
             /\ reads[i].ok => (i = Len(reads) /\ pc = "done")
       /\ reading => cursor = started
       /\ CountCalls("CreateFileW", "disk", TRUE)
            + CountCalls("CreateFileW", "disk", FALSE) = started

C4_Witness ==
    /\ pc = "done"
    /\ Len(diskNumbers) >= 2
    /\ Len(reads) = 1
    /\ reads[1].ok

\* C5: for a volume with one backing disk whose open, property query and
\* geometry query succeed, the finished fetch holds the texts at the serial
\* number and product id offsets, and DiskSize() is the size in bytes
\* divided by 2^30, rounded down.
C5_SingleDiskExact ==
    (/\ pc = "done"
     /\ resolved = "true"
     /\ Len(volumes[volumePath].extents) = 1
     /\ LET d == disks[volumes[volumePath].extents[1]]
        IN d.open /\ d.prop /\ d.geom)
    => LET d == disks[volumes[volumePath].extents[1]]
       IN /\ DiskSerialNumber = FieldText(d.desc, d.desc.SerialNumberOffset)
          /\ DiskModel = FieldText(d.desc, d.desc.ProductIdOffset)
          /\ DiskSize = Shr30(SizeInBytes(d.geo))

\* C6: a string scan that starts inside buffer[] reads no byte outside it:
\* the index of every byte it reads, the one that ends it included, is
\* below BufSize.
C6_ScanStaysInBuffer ==
    \A s \in scans : s.first < BufSize => s.last < BufSize

\* C7: for a volume resolved to its disk numbers, when the disk whose read
\* succeeded has serial number offset 0 the fetch's serial number is empty,
\* when it has product id offset 0 the model is empty, whatever was tried
\* before, and no scan starts at offset 0.
C7_AbsentFieldIsEmpty ==
    (/\ pc = "done"
     /\ diskNumbers = volumes[volumePath].extents
     /\ Len(reads) >= 1
     /\ reads[Len(reads)].ok)
    => LET d == disks[reads[Len(reads)].disk].desc
       IN /\ d.SerialNumberOffset = 0 => DiskSerialNumber = <<>>
          /\ d.ProductIdOffset = 0 => DiskModel = <<>>
          /\ \A s \in scans : s.first # 0

\* C8: once GetVolumeDiskExtents has returned, the volume handle is not open
\* and CloseHandle was called on it once if CreateFileW had opened it and
\* never otherwise; every CloseHandle on it found it open.
C8_VolumeHandleReleasedOnce ==
    /\ resolved # "pending"
          => /\ hVolume # "open"
             /\ CountCalls("CloseHandle", "volume", TRUE)
                  = CountCalls("CreateFileW", "volume", TRUE)
             /\ CountCalls("CreateFileW", "volume", TRUE)
                  + CountCalls("CreateFileW", "volume", FALSE) = 1
    /\ \A i \in 1..Len(calls) :
          (calls[i].op = "CloseHandle" /\ calls[i].on = "volume") => calls[i].live

C8_Witness ==
    /\ resolved = "false"
    /\ hVolume = "closed"
    /\ CountCalls("CloseHandle", "volume", TRUE) = 1

\* C9: whenever no GetDiskProperties call is running, no disk handle is open
\* and CloseHandle was called on a disk handle as often as CreateFileW
\* opened one; while a call runs its handle is the only one not yet closed;
\* every CloseHandle found its handle open, and a CreateFileW that failed is
\* followed by no call on that disk.
C9_DiskHandleReleasedOnce ==
    LET reading == pc \in {"query_property", "query_geometry"}
        opened == CountCalls("CreateFileW", "disk", TRUE)
        closed == CountCalls("CloseHandle", "disk", TRUE)
    IN /\ ~reading => (hDevice # "open" /\ closed = opened)
       /\ reading => (hDevice = "open" /\ closed = opened - 1)
       /\ \A i \in 1..Len(calls) :
             /\ (calls[i].op = "CloseHandle" /\ calls[i].on = "disk")
                   => calls[i].live
             /\ (calls[i] = Call("CreateFileW", "disk", TRUE, FALSE)
                 /\ i < Len(calls))
                   => calls[i + 1].op = "CreateFileW"

C9_Witness ==
    /\ pc = "done"
    /\ \E i \in 1..Len(reads) :
          /\ ~reads[i].ok
          /\ Openable(reads[i].disk)
          /\ disks[reads[i].disk].prop
    /\ \E i \in 1..Len(reads) : ~Openable(reads[i].disk)
    /\ hDevice # "open"

\* C10: for a volume that opens and whose extents query reports N >= 1
\* extents, the resolver returns true and diskNumbers is the list of the N
\* disk numbers in the OS's order.
C10_AllExtentsAppended ==
    (/\ resolved # "pending"
     /\ volumes[volumePath].open
     /\ volumes[volumePath].query
     /\ Len(volumes[volumePath].extents) >= 1)
    => (resolved = "true" /\ diskNumbers = volumes[volumePath].extents)

\* C11: a fetch on a volume path returns the serial number, model and size
\* that the last finished fetch on that path returned, whatever was fetched
\* in between (stated for the volumes whose extents fit the resolver's
\* structure, where the OS's answers are the same in every call).
C11_RepeatedFetchSame ==
    (/\ pc = "done"
     /\ previous[volumePath].known
     /\ Len(volumes[volumePath].extents) <= ExtentCapacity)
    => Properties(DiskSerialNumber, DiskModel, size) = previous[volumePath].result

\* the product of the four fields of a geometry as a number below 2^75
ExactProduct(dg) ==
    Mul(Mul(Mul(dg.Cylinders, dg.TracksPerCylinder), dg.SectorsPerTrack),
        dg.BytesPerSector)

\* below 2^64
Fits64(a) == a[5] < 16

\* C12: after a successful read of a disk whose geometry has a product
\* below 2^64, size.QuadPart is that product (a LONGLONG that is not
\* negative, with the product's bits) and DiskSize() is the product divided
\* by 2^30, rounded down.
C12_SizeIsProduct ==
    (/\ pc = "done"
     /\ Len(reads) >= 1
     /\ reads[Len(reads)].ok
     /\ Fits64(ExactProduct(disks[reads[Len(reads)].disk].geo)))
    => LET exact == ExactProduct(disks[reads[Len(reads)].disk].geo)
       IN /\ size = exact
          /\ ~IsNegative(size)
          /\ DiskSize = Shr30(exact)

\* a call on the volume handle has failed
VolumeCallFailed(log) ==
    \E i \in 1..Len(log) : log[i].on = "volume" /\ ~log[i].ok

\* C13: a step of GetVolumeDiskExtents in which CreateFileW or the extents
\* query fails returns false and leaves diskNumbers as the step found it
\* (as it was when the resolver was entered); the resolver returns false
\* only when one of the two failed.
C13_ResolverFailureKeepsList ==
    [][resolved = "pending"
       => /\ VolumeCallFailed(calls')
             => (resolved' = "false" /\ diskNumbers' = diskNumbers)
          /\ resolved' = "false"
             => (VolumeCallFailed(calls') /\ diskNumbers' = diskNumbers)]_vars

C13_Witness ==
    /\ resolved = "false"
    /\ volumes[volumePath].open
    /\ Len(volumes[volumePath].extents) > ExtentCapacity
    /\ diskNumbers = <<>>

\* the calls made on disk handles, in order
IsDiskCall(c) == c.on = "disk"
DiskCalls == SelectSeq(calls, IsDiskCall)

\* the number of CreateFileW calls among the first i disk calls, and the
\* positions of the calls that belong to the k-th call of GetDiskProperties
OpensUpTo(i) ==
    Cardinality({ j \in 1..i : DiskCalls[j].op = "CreateFileW" })
CallsOf(k) ==
    { i \in 1..Len(DiskCalls) : OpensUpTo(i) = k }

\* the k-th call of GetDiskProperties made the operation and it succeeded
Succeeded(k, op) ==
    \E i \in CallsOf(k) : DiskCalls[i].op = op /\ DiskCalls[i].ok

\* C14: in every call of GetDiskProperties the operations come in the order
\* CreateFileW, IOCTL_STORAGE_QUERY_PROPERTY, IOCTL_DISK_GET_DRIVE_GEOMETRY,
\* each at most once; after an operation that failed no other of the three
\* is issued in that call (a handle that was opened is closed, nothing
\* else); the call returns true exactly when all three succeeded.
C14_FailFast ==
    /\ \A i \in 1..Len(DiskCalls) :
          LET c == DiskCalls[i]
              last == i = Len(DiskCalls)
              next == DiskCalls[i + 1]
          IN /\ i = 1 => c.op = "CreateFileW"
             /\ (c.op = "CreateFileW" /\ ~c.ok /\ ~last)
                   => next.op = "CreateFileW"
             /\ (c.op = "CreateFileW" /\ c.ok /\ ~last)
                   => next.op = "IOCTL_STORAGE_QUERY_PROPERTY"
             /\ (c.op = "IOCTL_STORAGE_QUERY_PROPERTY" /\ ~c.ok)
                   => (~last /\ next.op = "CloseHandle")
             /\ (c.op = "IOCTL_STORAGE_QUERY_PROPERTY" /\ c.ok /\ ~last)
                   => next.op = "IOCTL_DISK_GET_DRIVE_GEOMETRY"
             /\ c.op = "IOCTL_DISK_GET_DRIVE_GEOMETRY"
                   => (~last /\ next.op = "CloseHandle")
             /\ (c.op = "CloseHandle" /\ ~last) => next.op = "CreateFileW"
    /\ OpensUpTo(Len(DiskCalls))
          = Len(reads) + (IF pc \in {"query_property", "query_geometry"}
                          THEN 1 ELSE 0)
    /\ \A k \in 1..Len(reads) :
          reads[k].ok <=> /\ Succeeded(k, "CreateFileW")
                          /\ Succeeded(k, "IOCTL_STORAGE_QUERY_PROPERTY")
                          /\ Succeeded(k, "IOCTL_DISK_GET_DRIVE_GEOMETRY")

C14_Witness ==
    /\ pc = "done"
    /\ Len(reads) = 2
    /\ ~reads[1].ok
    /\ Openable(reads[1].disk)
    /\ ~disks[reads[1].disk].prop
    /\ reads[2].ok

\* the number of handles open after the first i calls of the log
OpenAfter(i) ==
    Cardinality({ j \in 1..i : calls[j].op = "CreateFileW" /\ calls[j].ok })
    - Cardinality({ j \in 1..i : calls[j].op = "CloseHandle" })

\* the number of handles the fetcher holds open
OpenHandles ==
    (IF hVolume = "open" THEN 1 ELSE 0) + (IF hDevice = "open" THEN 1 ELSE 0)

\* C15: during a fetch at most one handle is open: every CreateFileW, on the
\* volume or on a disk, is made when no handle is open, so the volume handle
\* is closed before the first disk is opened and each disk handle before
\* the next; every DeviceIoControl and every CloseHandle is made on a handle
\* that is open; when the fetch is over no handle is open.
C15_OneHandleAtATime ==
    /\ OpenHandles <= 1
    /\ OpenHandles = OpenAfter(Len(calls))
    /\ \A i \in 1..Len(calls) :
          /\ OpenAfter(i) \in {0, 1}
          /\ calls[i].op = "CreateFileW" => OpenAfter(i - 1) = 0
          /\ calls[i].op # "CreateFileW"
                => (calls[i].live /\ OpenAfter(i - 1) = 1)
    /\ pc = "done" => OpenHandles = 0

C15_Witness ==
    /\ pc = "query_geometry"
    /\ hDevice = "open"
    /\ hVolume = "closed"
    /\ Len(reads) = 1
    /\ OpenAfter(Len(calls)) = 1

\* the last call of GetDiskProperties has returned false
LastReadFailed ==
    /\ pc \in {"next_disk", "done"}
    /\ Len(reads) >= 1
    /\ ~reads[Len(reads)].ok

\* the operation that failed in the last call of GetDiskProperties
FailedStep ==
    LET failures == { i \in 1..Len(DiskCalls) : ~DiskCalls[i].ok }
    IN DiskCalls[CHOOSE i \in failures : \A j \in failures : j <= i].op

\* C16 as stated: a call of GetDiskProperties that returns false leaves
\* serialNumber, model and size as they were when it was entered.
C16_FailedReadUnchanged ==
    LastReadFailed => Properties(serialNumber, model, size) = entry

\* C16, amended: a call of GetDiskProperties that returns false leaves size
\* as it was on entry whichever step failed, and serialNumber and model too
\* when CreateFileW or the property query failed; when the geometry query
\* failed, each of serialNumber and model whose offset in the descriptor is
\* not 0 holds the string scanned from the buffer, and the other is as it
\* was on entry.
C16_FailedReadFrame ==
    LastReadFailed
    => LET d == disks[reads[Len(reads)].disk].desc
       IN /\ size = entry.size
          /\ FailedStep # "IOCTL_DISK_GET_DRIVE_GEOMETRY"
                => /\ serialNumber = entry.serialNumber
                   /\ model = entry.model
          /\ FailedStep = "IOCTL_DISK_GET_DRIVE_GEOMETRY"
                => \E tail \in Tails :
                      /\ serialNumber =
                            IF d.SerialNumberOffset # 0
                            THEN ScanString(d, tail, d.SerialNumberOffset)
                            ELSE entry.serialNumber
                      /\ model =
                            IF d.ProductIdOffset # 0
                            THEN ScanString(d, tail, d.ProductIdOffset)
                            ELSE entry.model

C16_Witness ==
    /\ LastReadFailed
    /\ FailedStep = "IOCTL_DISK_GET_DRIVE_GEOMETRY"
    /\ serialNumber # entry.serialNumber
    /\ size = entry.size

====
